---- MODULE Spec2Model ----
(***************************************************************************)
(* The Stackdriver trace exporter of opencensus-go: Exporter.Export,      *)
(* Exporter.Flush, Exporter.uploadToStackdriver and the overflowLogger    *)
(* (src/tag/example_test.go, lines 80-280), together with the bundler     *)
(* the exporter is built on.  Time is counted in seconds.                 *)
(* The last part is the value codec of package tagencoding                *)
(* (src/unnamed/part_000): Values, WriteValue, ReadValue, Bytes.          *)
(***************************************************************************)
EXTENDS Integers, Sequences, FiniteSets, TLC

\* ------------------------------------------------------------ bounds
MaxExports == 3         \* Export calls in one run
MaxTime == 1            \* the clock of Spec stops advancing here
MaxLogCalls == 4        \* log() calls in one run of SpecLogger
MaxLogTime == 11        \* the clock of SpecLogger and SpecOverflow stops here
ScenarioExports == 15   \* Export calls of the overflow scenario
MaxWrites == 3          \* WriteValue calls in one run of SpecCodec
LongLen == 258          \* the length of the longest value written

\* The Options the exporter is built from: 0 stands for "not set".
CountOptions == {0, 2}
DelayOptions == {1}

\* ------------------------------------------------- program constants
DefaultDelayThreshold == 2      \* 2 * time.Second
DefaultCountThreshold == 50
QuietWindow == 5                \* 5 * time.Second

VARIABLES
    BundleCountThreshold,   \* bundler.BundleCountThreshold
    DelayThreshold,         \* bundler.DelayThreshold
    now,                    \* the clock
    exported,               \* one entry per Export call: [n, res]
    curBundle,              \* the bundler's pending batch: span ids
    bufferedSize,           \* weight the bundler holds (pending + in flight)
    bundleTimer,            \* deadline of the pending batch's delay timer, or NoTimer
    tasks,                  \* upload tasks in creation order
    errLog,                 \* "failed to upload %d spans: %v" lines: the %d
    fpc, fwait, fseen, ftasks,      \* the caller of Flush
    pause, accum,           \* overflowLogger
    timers,                 \* pending time.AfterFunc callbacks of the logger
    logs,                   \* overflow messages written: [at, n, by]
    logCalls,               \* calls of overflowLogger.log so far
    quietFires,             \* callbacks that found accum = 0 since the last message
    bigEndian,              \* the byte order of the platform the program is built for
    Buffer, WriteIndex, ReadIndex,  \* a tagencoding.Values
    written,                \* the arguments of the WriteValue calls so far
    results,                \* the results of the ReadValue calls so far
    panicked                \* a ReadValue call ended in a run-time panic

exporterVars == <<exported, curBundle, bufferedSize, bundleTimer, tasks, errLog>>
flushVars == <<fpc, fwait, fseen, ftasks>>
loggerVars == <<pause, accum, timers, logs, logCalls, quietFires>>
cfgVars == <<BundleCountThreshold, DelayThreshold>>
codecVars == <<bigEndian, Buffer, WriteIndex, ReadIndex, written, results, panicked>>
vars == <<cfgVars, now, exporterVars, flushVars, loggerVars, codecVars>>

NoTimer == -1

\* ------------------------------------------------------- newExporter
CountThresholdOf(o) == IF o > 0 THEN o ELSE DefaultCountThreshold
DelayThresholdOf(o) == IF o > 0 THEN o ELSE DefaultDelayThreshold

\* The byte threshold with "/" written for "*".
ByteThresholdDivided == BundleCountThreshold \div 200
\* The ceiling with the factor of the byte threshold.
BufferedLimitSmall == BundleCountThreshold * 200

\* The ceiling with a zero too many.
BufferedLimitLarge == BundleCountThreshold * 20000

BundleByteThreshold == BundleCountThreshold * 200
BundleByteLimit == BundleCountThreshold * 1000
BufferedByteLimit == BundleCountThreshold * 2000

\* Weights of the exported spans (1 + attributes + annotations + ...): a
\* plain span, the largest span a batch takes, and an oversized span.
Weights == {1, BundleByteLimit, BundleByteLimit + 1}

\* newExporter(o, client) for o.BundleCountThreshold = oc, o.BundleDelayThreshold = od.
newExporter(oc, od) ==
    /\ BundleCountThreshold = CountThresholdOf(oc)
    /\ DelayThreshold = DelayThresholdOf(od)
    /\ curBundle = <<>>
    /\ bufferedSize = 0
    /\ bundleTimer = NoTimer
    /\ tasks = <<>>
    /\ errLog = <<>>
    /\ exported = <<>>
    /\ pause = FALSE
    /\ accum = 0
    /\ timers = <<>>
    /\ logs = <<>>
    /\ logCalls = 0
    /\ quietFires = 0

Idle ==
    /\ now = 0
    /\ fpc = "idle"
    /\ fwait = {}
    /\ fseen = 0
    /\ ftasks = 0

\* &Values{}: nothing written, nothing read.
newValues ==
    /\ Buffer = <<>>
    /\ WriteIndex = 0
    /\ ReadIndex = 0
    /\ written = <<>>
    /\ results = <<>>
    /\ panicked = FALSE

\* The exporter does not depend on the byte order.
LittleEndian == bigEndian = FALSE

Init ==
    /\ \E oc \in CountOptions, od \in DelayOptions : newExporter(oc, od)
    /\ Idle
    /\ newValues
    /\ LittleEndian

\* ------------------------------------------------------------ helpers
RECURSIVE SumSeq(_)
SumSeq(s) == IF s = <<>> THEN 0 ELSE Head(s) + SumSeq(Tail(s))

Range(s) == {s[i] : i \in 1..Len(s)}

SpanWeight(id) == exported[id].n
BundleSize(spans) == SumSeq([i \in 1..Len(spans) |-> SpanWeight(spans[i])])

Finished(t) == t.st \in {"ok", "failed"}

\* ------------------------------------------------------------ bundler
\* A batch detached from the pending buffer and handed to its own upload task.
\* why: the rule that closed the batch.
BundleTask(spans, size, why) ==
    [spans |-> spans, size |-> size, kind |-> "bundle", why |-> why, st |-> "queued",
     calls |-> 0, detached |-> TRUE]

\* bundler.Add's verdict on an item of size n.
AddResult(n) ==
    IF n > BundleByteLimit THEN "ErrOversizedItem"
    ELSE IF bufferedSize + n > BufferedByteLimit THEN "ErrOverflow"
    ELSE "nil"

\* bundler.Add accepting span id of size n: the pending batch is closed first
\* when the item would take it over the hard limit, and closed after the item
\* when it reaches the count threshold or the byte threshold.
bundlerAdd(id, n) ==
    LET over == curBundle # <<>> /\ BundleSize(curBundle) + n > BundleByteLimit
        ts1 == IF over THEN Append(tasks, BundleTask(curBundle, BundleSize(curBundle), "limit"))
               ELSE tasks
        cur2 == IF over THEN <<id>> ELSE Append(curBundle, id)
        size2 == IF over THEN n ELSE BundleSize(curBundle) + n
        count == Len(cur2) = BundleCountThreshold
        full == count \/ size2 >= BundleByteThreshold
    IN  /\ curBundle' = IF full THEN <<>> ELSE cur2
        /\ tasks' = IF full THEN Append(ts1, BundleTask(cur2, size2, IF count THEN "count" ELSE "bytes"))
                    ELSE ts1
        /\ bufferedSize' = bufferedSize + n
        /\ bundleTimer' = IF full THEN NoTimer
                          ELSE IF Len(cur2) = 1 THEN now + DelayThreshold
                          ELSE bundleTimer

\* The delay timer of the pending batch fires: the batch is flushed.
bundlerTimeout ==
    /\ bundleTimer # NoTimer
    /\ now >= bundleTimer
    /\ curBundle # <<>>
    /\ tasks' = Append(tasks, BundleTask(curBundle, BundleSize(curBundle), "delay"))
    /\ curBundle' = <<>>
    /\ bundleTimer' = NoTimer
    /\ UNCHANGED <<codecVars, cfgVars, now, exported, bufferedSize, errLog, flushVars, loggerVars>>

\* bundler.Flush, the call: the pending batch is forced out and the caller
\* starts waiting for every batch not yet uploaded.
bundlerFlush ==
    LET ts1 == IF curBundle = <<>> THEN tasks
               ELSE Append(tasks, BundleTask(curBundle, BundleSize(curBundle), "flush"))
    IN  /\ tasks' = ts1
        /\ curBundle' = <<>>
        /\ bundleTimer' = NoTimer
        /\ fwait' = {t \in 1..Len(ts1) : ts1[t].kind = "bundle" /\ ~Finished(ts1[t])}

\* ----------------------------------------------------- overflowLogger
\* delay() that leaves pause alone.
DelayNoPause(ts) ==
    /\ pause' = pause
    /\ timers' = Append(ts, [due |-> now + QuietWindow, st |-> "armed"])

\* delay(): pause, and time.AfterFunc(5*time.Second, ...) on top of the
\* callbacks ts that are still pending.
delay(ts) ==
    /\ pause' = TRUE
    /\ timers' = Append(ts, [due |-> now + QuietWindow, st |-> "armed"])

\* log() that calls delay() when the logger is paused as well.
LogAlwaysDelays ==
    /\ logCalls' = logCalls + 1
    /\ delay(timers)
    /\ IF ~pause
       THEN /\ logs' = Append(logs, [at |-> now, n |-> 1, by |-> "log"])
            /\ quietFires' = 0
            /\ accum' = accum
       ELSE /\ accum' = accum + 1
            /\ UNCHANGED <<logs, quietFires>>

\* log() that forgets the drop when the logger is paused.
LogLosesDrop ==
    /\ logCalls' = logCalls + 1
    /\ accum' = accum
    /\ IF ~pause
       THEN /\ logs' = Append(logs, [at |-> now, n |-> 1, by |-> "log"])
            /\ quietFires' = 0
            /\ delay(timers)
       ELSE UNCHANGED <<pause, timers, logs, quietFires>>

\* log() that counts the drop it reports at once in accum as well.
LogCountsFirst ==
    /\ logCalls' = logCalls + 1
    /\ accum' = accum + 1
    /\ IF ~pause
       THEN /\ logs' = Append(logs, [at |-> now, n |-> 1, by |-> "log"])
            /\ quietFires' = 0
            /\ delay(timers)
       ELSE UNCHANGED <<pause, timers, logs, quietFires>>

\* log(), under o.mu.
log ==
    /\ logCalls' = logCalls + 1
    /\ IF ~pause
       THEN /\ logs' = Append(logs, [at |-> now, n |-> 1, by |-> "log"])
            /\ quietFires' = 0
            /\ delay(timers)
            /\ accum' = accum
       ELSE /\ accum' = accum + 1
            /\ UNCHANGED <<pause, timers, logs, quietFires>>

Remove(s, i) == [j \in 1..(Len(s) - 1) |-> IF j < i THEN s[j] ELSE s[j + 1]]

\* The timer of a callback expires: its goroutine starts and goes for o.mu.
TimerFire(i) ==
    /\ timers[i].st = "armed"
    /\ now >= timers[i].due
    /\ timers' = [timers EXCEPT ![i].st = "fired"]
    /\ UNCHANGED <<codecVars, cfgVars, now, exporterVars, flushVars, pause, accum, logs, logCalls,
                   quietFires>>

\* The callback that finds accum = 0 and leaves pause set.
CallbackStaysPaused(i) ==
    IF accum = 0
    THEN /\ pause' = pause
         /\ timers' = Remove(timers, i)
         /\ quietFires' = quietFires + 1
         /\ UNCHANGED <<accum, logs>>
    ELSE /\ logs' = Append(logs, [at |-> now, n |-> accum, by |-> "timer"])
         /\ accum' = 0
         /\ quietFires' = 0
         /\ delay(Remove(timers, i))

\* The callback that writes its message and leaves accum as it is.
CallbackKeepsAccum(i) ==
    IF accum = 0
    THEN /\ pause' = FALSE
         /\ timers' = Remove(timers, i)
         /\ quietFires' = quietFires + 1
         /\ UNCHANGED <<accum, logs>>
    ELSE /\ logs' = Append(logs, [at |-> now, n |-> accum, by |-> "timer"])
         /\ accum' = accum
         /\ quietFires' = 0
         /\ delay(Remove(timers, i))

\* The callback that does not call delay() again after the single-drop message.
CallbackSingleSettles(i) ==
    IF accum = 0
    THEN /\ pause' = FALSE
         /\ timers' = Remove(timers, i)
         /\ quietFires' = quietFires + 1
         /\ UNCHANGED <<accum, logs>>
    ELSE /\ logs' = Append(logs, [at |-> now, n |-> accum, by |-> "timer"])
         /\ accum' = 0
         /\ quietFires' = 0
         /\ IF accum = 1
            THEN pause' = FALSE /\ timers' = Remove(timers, i)
            ELSE delay(Remove(timers, i))

\* The body of the callback that delay() registers, under o.mu.  The cases
\* o.accum == 1 and default differ in the text of the message only: the
\* first writes "failed to upload span", the second "failed to upload %d
\* spans" with %d = accum; both are the message [n |-> accum].
delayCallback(i) ==
    IF accum = 0
    THEN /\ pause' = FALSE
         /\ timers' = Remove(timers, i)
         /\ quietFires' = quietFires + 1
         /\ UNCHANGED <<accum, logs>>
    ELSE /\ logs' = Append(logs, [at |-> now, n |-> accum, by |-> "timer"])
         /\ accum' = 0
         /\ quietFires' = 0
         /\ delay(Remove(timers, i))

TimerCallback(i) ==
    /\ timers[i].st = "fired"
    /\ delayCallback(i)
    /\ UNCHANGED <<codecVars, cfgVars, now, exporterVars, flushVars, logCalls>>

\* ----------------------------------------------------------- Exporter
\* e.uploadFn([]*trace.SpanData{s}) called without "go".
CallUploadFn(id, n) ==
    [spans |-> <<id>>, size |-> n, kind |-> "single", why |-> "oversized", st |-> "queued",
     calls |-> 0, detached |-> FALSE]

\* go e.uploadFn([]*trace.SpanData{s}): a detached upload of one span.
GoUploadFn(id, n) ==
    [spans |-> <<id>>, size |-> n, kind |-> "single", why |-> "oversized", st |-> "queued",
     calls |-> 0, detached |-> TRUE]

\* A call of uploadFn made on the caller's own goroutine holds the caller
\* until it returns.
ExportBlocked == \E t \in 1..Len(tasks) : ~tasks[t].detached /\ ~Finished(tasks[t])

\* case bundler.ErrOversizedItem that goes on into the overflow case.
ExportOversizedFallsThrough(id, n) ==
    /\ tasks' = Append(tasks, GoUploadFn(id, n))
    /\ log
    /\ UNCHANGED <<curBundle, bufferedSize, bundleTimer>>

\* case bundler.ErrOversizedItem.
ExportOversized(id, n) ==
    /\ tasks' = Append(tasks, GoUploadFn(id, n))
    /\ UNCHANGED <<curBundle, bufferedSize, bundleTimer, loggerVars>>

\* case bundler.ErrOverflow without the call of log().
ExportOverflowSilent ==
    UNCHANGED <<curBundle, bufferedSize, bundleTimer, tasks, loggerVars>>

\* case bundler.ErrOverflow.
ExportOverflow ==
    /\ log
    /\ UNCHANGED <<curBundle, bufferedSize, bundleTimer, tasks>>

\* Export(s) for a span of weight n (the default case of the switch is not
\* modelled: Add returns no other error).
Export(n) ==
    /\ ~ExportBlocked
    /\ LET id == Len(exported) + 1
           err == AddResult(n)
       IN  /\ exported' = Append(exported, [n |-> n, res |-> err])
           /\ CASE err = "nil" -> bundlerAdd(id, n) /\ UNCHANGED loggerVars
                [] err = "ErrOversizedItem" -> ExportOversized(id, n)
                [] err = "ErrOverflow" -> ExportOverflow
    /\ UNCHANGED <<codecVars, cfgVars, now, errLog, flushVars>>

\* Flush() that returns without calling the bundler.
FlushNoWait ==
    /\ fwait' = {}
    /\ UNCHANGED <<tasks, curBundle, bundleTimer>>

\* Flush(): e.bundler.Flush().
Flush == bundlerFlush

FlushCall ==
    /\ fpc = "idle"
    /\ Flush
    /\ fpc' = "waiting"
    /\ fseen' = Len(exported)
    /\ ftasks' = Len(tasks')
    /\ UNCHANGED <<codecVars, cfgVars, now, exported, bufferedSize, errLog, loggerVars>>

FlushReturn ==
    /\ fpc = "waiting"
    /\ \A t \in fwait : Finished(tasks[t])
    /\ fpc' = "idle"
    /\ fwait' = {}
    /\ fseen' = 0
    /\ ftasks' = 0
    /\ UNCHANGED <<codecVars, cfgVars, now, exporterVars, loggerVars>>

\* The upload task of tasks[t] calls e.uploadFn, which builds the request
\* and calls client.BatchWriteSpans.
UploadCall(t) ==
    /\ tasks[t].st = "queued"
    /\ tasks' = [tasks EXCEPT ![t].st = "running", ![t].calls = @ + 1]
    /\ UNCHANGED <<codecVars, cfgVars, now, exported, curBundle, bufferedSize, bundleTimer, errLog,
                   flushVars, loggerVars>>

\* uploadToStackdriver that tries a failed batch again.
UploadRetries(t, err) ==
    /\ tasks' = [tasks EXCEPT ![t].st = IF err THEN "queued" ELSE "ok"]
    /\ errLog' = IF err THEN Append(errLog, Len(tasks[t].spans)) ELSE errLog

\* uploadToStackdriver after BatchWriteSpans returned err: a failure is
\* logged with the number of spans and nothing else is done about it.
uploadToStackdriver(t, err) ==
    /\ tasks' = [tasks EXCEPT ![t].st = IF err THEN "failed" ELSE "ok"]
    /\ errLog' = IF err THEN Append(errLog, Len(tasks[t].spans)) ELSE errLog

\* BatchWriteSpans returns; the bundler then releases the batch's weight.
UploadReturn(t, err) ==
    /\ tasks[t].st = "running"
    /\ uploadToStackdriver(t, err)
    /\ bufferedSize' = IF tasks[t].kind = "bundle" THEN bufferedSize - tasks[t].size
                       ELSE bufferedSize
    /\ UNCHANGED <<codecVars, cfgVars, now, exported, curBundle, bundleTimer, flushVars, loggerVars>>

Tick ==
    /\ now < MaxTime
    /\ now' = now + 1
    /\ UNCHANGED <<codecVars, cfgVars, exporterVars, flushVars, loggerVars>>

\* The exporter over its first MaxTime seconds.  MaxTime < QuietWindow: no
\* callback of the overflow logger can expire that early, so Next has no
\* action for them (SpecLogger and SpecOverflow have).
Next ==
    \/ \E n \in Weights : Len(exported) < MaxExports /\ Export(n)
    \/ FlushCall
    \/ FlushReturn
    \/ bundlerTimeout
    \/ \E t \in 1..Len(tasks) : UploadCall(t)
    \/ \E t \in 1..Len(tasks), err \in BOOLEAN : UploadReturn(t, err)
    \/ Tick

Spec == Init /\ [][Next]_vars

\* ------------------------------------------------ claims on the exporter
FlushReturns == fpc = "waiting" /\ fpc' = "idle"

Dropped == {i \in 1..Len(exported) : exported[i].res = "ErrOverflow"}
TasksOf(i) == {t \in 1..Len(tasks) : i \in Range(tasks[t].spans)}

\* (C3, as claimed) When Flush() returns, every span passed to Export before
\* the call and not dropped for overflow has had its upload completed, the
\* spans sent alone on the oversized path included.
C3_FlushWaitsForEveryUpload ==
    [][FlushReturns =>
        \A i \in 1..fseen : i \notin Dropped =>
            \E t \in TasksOf(i) : Finished(tasks[t])]_vars

\* (C4) Flush() forces the pending batch out, returns only after the
\* uploader was invoked on every batch created before the call, the forced
\* one included, and with no Export since the call the pending batch is
\* empty when it returns.
C4_FlushWaitsForBatches ==
    /\ [][(fpc = "idle" /\ fpc' = "waiting") =>
            /\ curBundle' = <<>>
            /\ curBundle # <<>> =>
                 /\ Len(tasks') = Len(tasks) + 1
                 /\ tasks'[Len(tasks')].spans = curBundle
                 /\ tasks'[Len(tasks')].kind = "bundle"]_vars
    /\ [][FlushReturns =>
            /\ \A t \in 1..ftasks : tasks[t].kind = "bundle" => tasks[t].calls >= 1
            /\ Len(exported) = fseen => curBundle = <<>>]_vars

\* A Flush about to return that forced an under-threshold batch out and
\* waited for a batch already in flight as well.
C4_Witness ==
    /\ fpc = "waiting"
    /\ \A t \in fwait : Finished(tasks[t])
    /\ \E t \in fwait : tasks[t].why = "flush"
    /\ \E t \in fwait : tasks[t].why # "flush"

\* (C5) Export never waits for the uploader, and a batch can be handed to
\* the uploader whatever the state of the uploads of the other batches.
C5_ExportNeverBlocks ==
    /\ ~ExportBlocked
    /\ \A n \in Weights : ENABLED Export(n)
    /\ \A t \in 1..Len(tasks) : tasks[t].st = "queued" => ENABLED UploadCall(t)

\* An upload on the oversized path and a batch upload are both held up in
\* the uploader; a batch created later has been uploaded and Export has
\* returned since.
C5_Witness ==
    \E t1, t2, t3 \in 1..Len(tasks) :
        /\ tasks[t1].st = "running" /\ tasks[t1].kind = "single"
        /\ tasks[t2].st = "running" /\ tasks[t2].kind = "bundle"
        /\ t3 > t1 /\ t3 > t2 /\ Finished(tasks[t3])

\* (C6) A span dropped for overflow is in no pending batch and in no upload,
\* and every drop calls log() once.
C6_DroppedNeverUploaded ==
    /\ \A i \in Dropped : i \notin Range(curBundle) /\ TasksOf(i) = {}
    /\ logCalls = Cardinality(Dropped)

\* A span was dropped and everything else has been uploaded since.
C6_Witness ==
    /\ Dropped # {}
    /\ tasks # <<>>
    /\ \A t \in 1..Len(tasks) : Finished(tasks[t])

\* (C7) An Export of a span heavier than countThreshold x 1000 hands the
\* span alone to an upload of its own and leaves the pending batch, the
\* buffered weight and the overflow logger as they were: no drop, no log().
C7_OversizedAlone ==
    [][(Len(exported') = Len(exported) + 1
            /\ exported'[Len(exported')].n > BundleCountThreshold * 1000) =>
        /\ exported'[Len(exported')].res = "ErrOversizedItem"
        /\ Len(tasks') = Len(tasks) + 1
        /\ tasks'[Len(tasks')].spans = <<Len(exported')>>
        /\ tasks'[Len(tasks')].kind = "single"
        /\ \A t \in 1..Len(tasks) : tasks'[t] = tasks[t]
        /\ UNCHANGED <<curBundle, bufferedSize, bundleTimer, loggerVars>>]_vars

\* The last Export sent an oversized span on its own while the buffered
\* weight was at the ceiling.
C7_Witness ==
    /\ tasks # <<>>
    /\ tasks[Len(tasks)].kind = "single"
    /\ tasks[Len(tasks)].spans = <<Len(exported)>>
    /\ bufferedSize = BufferedByteLimit

\* (C8) While the total weight of the Export calls does not exceed
\* countThreshold x 2000, no span is dropped and log() is not called.
C8_NoDropUnderCeiling ==
    SumSeq([i \in 1..Len(exported) |-> exported[i].n]) <= BundleCountThreshold * 2000
        => Dropped = {} /\ logCalls = 0

\* The exports fill the buffer up to the ceiling.
C8_Witness ==
    /\ Len(exported) >= 2
    /\ SumSeq([i \in 1..Len(exported) |-> exported[i].n]) = BundleCountThreshold * 2000
    /\ bufferedSize = BundleCountThreshold * 2000

\* (C9) The uploader is called at most once on a batch, also when the call
\* fails; a span is in at most one upload; a failed upload writes one log
\* line with the number of its spans and changes nothing else (the bundler
\* releases the weight of the batch as after a successful upload).
C9_NoRetryNoDuplicate ==
    /\ [](/\ \A t \in 1..Len(tasks) : tasks[t].calls = IF tasks[t].st = "queued" THEN 0 ELSE 1
          /\ \A i \in 1..Len(exported) :
                /\ Cardinality(TasksOf(i)) <= 1
                /\ i \in Range(curBundle) => TasksOf(i) = {}
          /\ Len(errLog) = Cardinality({t \in 1..Len(tasks) : tasks[t].st = "failed"}))
    /\ [][\A t \in 1..Len(tasks) :
            (tasks[t].st = "running" /\ tasks'[t].st # "running") =>
                /\ tasks' = [tasks EXCEPT ![t].st = tasks'[t].st]
                /\ tasks'[t].st \in {"ok", "failed"}
                /\ errLog' = IF tasks'[t].st = "failed"
                             THEN Append(errLog, Len(tasks[t].spans)) ELSE errLog
                /\ UNCHANGED <<exported, curBundle, bundleTimer, loggerVars>>]_vars

\* Uploads have failed, of a batch of several spans among them.
C9_Witness ==
    /\ Len(errLog) >= 2
    /\ \E k \in 1..Len(errLog) : errLog[k] >= 2

AllPlain == \A i \in 1..Len(exported) : exported[i].n = 1
WhyOfTasks == {tasks[t].why : t \in 1..Len(tasks)}

\* (C10, as claimed) After exactly countThreshold spans of weight 1 were
\* exported with no Flush, exactly one batch, holding those spans, has been
\* handed to the uploader.
C10_OneBatchAtCountThreshold ==
    (Len(exported) = BundleCountThreshold /\ AllPlain /\ "flush" \notin WhyOfTasks) =>
        /\ Len(tasks) = 1
        /\ tasks[1].spans = [i \in 1..BundleCountThreshold |-> i]

\* (C10, amended) ... provided the delay timer of the pending batch has not
\* fired between these exports: the batch is then closed by the count rule
\* in the last of the Export calls, without waiting for the timer.
C10_OneBatchWithinDelay ==
    (Len(exported) = BundleCountThreshold /\ AllPlain
            /\ "flush" \notin WhyOfTasks /\ "delay" \notin WhyOfTasks) =>
        /\ Len(tasks) = 1
        /\ tasks[1].spans = [i \in 1..BundleCountThreshold |-> i]
        /\ tasks[1].kind = "bundle"
        /\ tasks[1].why = "count"
        /\ curBundle = <<>>

\* The batch was closed by the count rule and has been uploaded.
C10_Witness ==
    /\ Len(exported) = BundleCountThreshold
    /\ AllPlain
    /\ Len(tasks) = 1
    /\ tasks[1].why = "count"
    /\ tasks[1].st = "ok"

\* ------------------------------------------- the delay rule on its own
\* Spans of weight 1 are exported and nobody calls Flush.  The clock goes on
\* past MaxTime for as long as the delay timer of a pending batch is running.
PlainExport ==
    /\ Len(exported) < MaxExports
    /\ Export(1)

TickDelay ==
    /\ now < MaxTime \/ (bundleTimer # NoTimer /\ now < bundleTimer)
    /\ now' = now + 1
    /\ UNCHANGED <<codecVars, cfgVars, exporterVars, flushVars, loggerVars>>

NextDelay ==
    \/ PlainExport
    \/ bundlerTimeout
    \/ \E t \in 1..Len(tasks) : UploadCall(t)
    \/ \E t \in 1..Len(tasks), err \in BOOLEAN : UploadReturn(t, err)
    \/ TickDelay

\* Time passes and a timer that is due fires.
SpecDelay ==
    Init /\ [][NextDelay]_vars /\ WF_vars(TickDelay) /\ WF_vars(bundlerTimeout)

FirstSpans(k) == [i \in 1..k |-> i]

\* (C11, as claimed) Once k < countThreshold spans of weight 1 were exported
\* and the pending batch has been flushed, exactly one batch, holding those
\* k spans, has been handed to the uploader.
C11_OneBatchAfterDelay ==
    (Len(exported) \in 1..(BundleCountThreshold - 1) /\ AllPlain /\ curBundle = <<>>) =>
        /\ Len(tasks) = 1
        /\ tasks[1].spans = FirstSpans(Len(exported))

\* (C11, amended) ... provided the delay timer has not fired before the last
\* of the k exports (every batch the timer flushed holds the k-th span):
\* until the timer fires the k spans are pending and nothing is handed
\* over; the timer does fire, and the batch it flushes is the only one and
\* holds the k spans.
C11_OneBatchWhenDelayElapses ==
    /\ [](LET k == Len(exported)
          IN  (/\ k \in 1..(BundleCountThreshold - 1)
               /\ AllPlain
               /\ \A t \in 1..Len(tasks) : tasks[t].why = "delay" => k \in Range(tasks[t].spans))
              => IF curBundle # <<>>
                 THEN /\ tasks = <<>>
                      /\ curBundle = FirstSpans(k)
                      /\ bundleTimer # NoTimer
                 ELSE /\ Len(tasks) = 1
                      /\ tasks[1].spans = FirstSpans(k)
                      /\ tasks[1].kind = "bundle"
                      /\ tasks[1].why = "delay")
    /\ \A k \in 1..MaxExports :
          (Len(exported) = k /\ curBundle # <<>>) ~> (Len(exported) > k \/ curBundle = <<>>)

\* Two spans were flushed together by the timer and uploaded.
C11_Witness ==
    /\ Len(exported) = 2
    /\ Len(tasks) = 1
    /\ tasks[1].why = "delay"
    /\ tasks[1].spans = <<1, 2>>
    /\ tasks[1].st = "ok"

\* ------------------------------------------------------ held weight
\* The weight of the spans of the upload tasks of one kind that have not
\* finished.
InFlight(kind) ==
    SumSeq([t \in 1..Len(tasks) |->
               IF tasks[t].kind = kind /\ ~Finished(tasks[t]) THEN tasks[t].size ELSE 0])

HeldByBundler == BundleSize(curBundle) + InFlight("bundle")

\* (C14, as claimed) The weight of the spans held for upload, in the pending
\* batch, in the batches in flight and in the uploads of single oversized
\* spans, never exceeds countThreshold x 2000.
C14_HeldWeightBounded ==
    HeldByBundler + InFlight("single") <= BundleCountThreshold * 2000

\* (C14, amended) The weight of the pending batch and of the batches in
\* flight is what the bundler counts, and it never exceeds countThreshold x
\* 2000; the spans sent alone on the oversized path are not counted.
C14_BundlerWeightBounded ==
    /\ bufferedSize = HeldByBundler
    /\ HeldByBundler <= BundleCountThreshold * 2000

\* The bundler holds the full ceiling while an oversized span is in flight.
C14_Witness ==
    /\ HeldByBundler = BundleCountThreshold * 2000
    /\ InFlight("single") > 0

\* ------------------------------------------- the overflow logger alone
\* A drop notifies the logger.
LogCall ==
    /\ logCalls < MaxLogCalls
    /\ log
    /\ UNCHANGED <<codecVars, cfgVars, now, exporterVars, flushVars>>

TickLog ==
    /\ now < MaxLogTime
    /\ now' = now + 1
    /\ UNCHANGED <<codecVars, cfgVars, exporterVars, flushVars, loggerVars>>

NextLogger ==
    \/ LogCall
    \/ \E i \in 1..Len(timers) : TimerFire(i)
    \/ \E i \in 1..Len(timers) : TimerCallback(i)
    \/ TickLog

SpecLogger == Init /\ [][NextLogger]_vars

\* (C1) Rate limit of the overflow logger: any two consecutive overflow
\* messages, whether written by log() or by the timer callback, are at least
\* one quiet window (5 seconds) apart.
C1_RateLimit ==
    \A i \in 1..(Len(logs) - 1) : logs[i + 1].at - logs[i].at >= QuietWindow

\* A message of log(), one of the callback and again one of log().
C1_Witness ==
    /\ Len(logs) >= 3
    /\ logs[1].by = "log"
    /\ logs[2].by = "timer"
    /\ logs[3].by = "log"

LastLog == logs[Len(logs)]

\* A callback runs: the one pending callback has fired and is gone after the step.
CallbackRuns ==
    /\ \E i \in 1..Len(timers) : timers[i].st = "fired"
    /\ \A j \in 1..Len(timers') : timers'[j].st # "fired"

Rearmed == timers' = <<[due |-> now + QuietWindow, st |-> "armed"]>>

\* (C15, as claimed) With no further drop the logger needs one more timer
\* callback to get back to Idle after the single-drop message than after
\* the message for several drops: two instead of one.
C15_SingleDropExtraCycle ==
    (~pause /\ logs # <<>> /\ LastLog.by = "timer") =>
        quietFires = IF LastLog.n = 1 THEN 2 ELSE 1

\* (C15, amended) A callback that finds accum = 1 writes the single-drop
\* message, resets accum and re-arms the timer, as does a callback that
\* finds accum > 1 with its own message; after either, with no further drop,
\* exactly one more callback takes the logger back to Idle.
C15_SingleDropSameCycle ==
    /\ []((~pause /\ logs # <<>>) => quietFires = 1)
    /\ [][(CallbackRuns /\ accum >= 1) =>
            /\ logs' = Append(logs, [at |-> now, n |-> accum, by |-> "timer"])
            /\ accum' = 0
            /\ pause' = TRUE
            /\ quietFires' = 0
            /\ Rearmed]_vars

\* Back in Idle after the single-drop message.
C15_Witness ==
    /\ ~pause
    /\ logs # <<>>
    /\ LastLog.by = "timer"
    /\ LastLog.n = 1
    /\ quietFires = 1

\* (C16) A timer callback writes a message if and only if accum > 0 when
\* it runs; the message reports accum; afterwards accum is 0; the logger
\* stays paused with the timer armed again when it wrote, and is back in
\* Idle (pause false, no timer) when accum was 0.
C16_TimerFireTransition ==
    [][CallbackRuns =>
        IF accum > 0
        THEN /\ Len(logs') = Len(logs) + 1
             /\ SubSeq(logs', 1, Len(logs)) = logs
             /\ logs'[Len(logs')].n = accum
             /\ logs'[Len(logs')].by = "timer"
             /\ accum' = 0
             /\ pause /\ pause'
             /\ Rearmed
        ELSE /\ logs' = logs
             /\ accum' = 0
             /\ pause /\ ~pause'
             /\ timers' = <<>>]_vars

\* A callback reported several drops and a later one found none.
C16_Witness ==
    /\ ~pause
    /\ Len(logs) = 2
    /\ logs[2].by = "timer"
    /\ logs[2].n >= 2
    /\ timers = <<>>

MessagesOf(by) == {k \in 1..Len(logs) : logs[k].by = by}
Reported(by) == SumSeq([k \in 1..Len(logs) |-> IF logs[k].by = by THEN logs[k].n ELSE 0])

\* (C18) The calls of log() so far are as many as the "buffer full" messages
\* that log() wrote at once, plus the drops reported by the messages of the
\* timer callback, plus accum.
C18_DropsConserved ==
    logCalls = Cardinality(MessagesOf("log")) + Reported("timer") + accum

\* The callback has reported several drops and another drop is counted in accum.
C18_Witness ==
    /\ \E k \in MessagesOf("timer") : logs[k].n >= 2
    /\ accum > 0

\* (C19) pause is true if and only if exactly one timer callback is
\* pending, armed or fired and waiting for o.mu; there are never two; and
\* accum > 0 only while pause is true.
C19_SinglePendingTimer ==
    /\ Len(timers) <= 1
    /\ pause <=> Len(timers) = 1
    /\ accum > 0 => pause

\* The timer has expired and its callback waits for o.mu while drops are
\* counted; a first round of the timer is already over.
C19_Witness ==
    /\ pause
    /\ accum > 0
    /\ Len(timers) = 1
    /\ timers[1].st = "fired"
    /\ Len(logs) >= 2

\* ------------------------------------- the overflow logger, scheduled
\* The clock goes on past MaxLogTime for as long as a timer is running.
TickTimers ==
    /\ now < MaxLogTime \/ \E i \in 1..Len(timers) : timers[i].st = "armed" /\ now < timers[i].due
    /\ now' = now + 1
    /\ UNCHANGED <<codecVars, cfgVars, exporterVars, flushVars, loggerVars>>

FireTimer == \E i \in 1..Len(timers) : TimerFire(i)
RunCallback == \E i \in 1..Len(timers) : TimerCallback(i)

NextLoggerFair ==
    \/ LogCall
    \/ FireTimer
    \/ RunCallback
    \/ TickTimers

\* Time passes, a timer that is due fires, and the goroutine of its callback
\* gets o.mu and runs.  Nothing obliges a drop to happen.
SpecLoggerFair ==
    /\ Init
    /\ [][NextLoggerFair]_vars
    /\ WF_vars(TickTimers)
    /\ WF_vars(FireTimer)
    /\ WF_vars(RunCallback)

LoggerIdle == ~pause /\ accum = 0 /\ timers = <<>>

\* (C20) After any call of log(), unless another call follows, the logger
\* gets to Idle (pause false, accum 0, no timer pending); it stays there
\* until the next call; and in Idle every call has been reported: by the
\* message of log() itself or in the count of a message of the callback.
C20_Quiescence ==
    /\ \A k \in 0..MaxLogCalls : (logCalls = k) ~> (logCalls > k \/ LoggerIdle)
    /\ [][(LoggerIdle /\ logCalls' = logCalls) => LoggerIdle']_vars
    /\ [](LoggerIdle => logCalls = Cardinality(MessagesOf("log")) + Reported("timer"))

\* Idle again after all the drops, some of them reported by the callback.
C20_Witness ==
    /\ LoggerIdle
    /\ logCalls = MaxLogCalls
    /\ Len(logs) >= 3
    /\ MessagesOf("timer") # {}

\* ------------------------------------------------ the overflow scenario
\* A ceiling of 10 spans: countThreshold 1, hence a ceiling of 2000, and
\* spans of weight 200.  No upload is ever made, so nothing drains; all the
\* Export calls are made within the quiet window that the first drop opens.
ScenarioWeight == BufferedByteLimit \div 10
ScenarioDropped == ScenarioExports - (BufferedByteLimit \div ScenarioWeight)

ScenarioExport ==
    /\ Len(exported) < ScenarioExports
    /\ IF logs = <<>> THEN TRUE ELSE now < logs[1].at + QuietWindow
    /\ Export(ScenarioWeight)

NextOverflow ==
    \/ ScenarioExport
    \/ \E i \in 1..Len(timers) : TimerFire(i)
    \/ \E i \in 1..Len(timers) : TimerCallback(i)
    \/ TickLog

InitOverflow == newExporter(1, 0) /\ Idle /\ newValues /\ LittleEndian

SpecOverflow == InitOverflow /\ [][NextOverflow]_vars

\* (C2, as claimed) Once the scenario's exports are made and the logger has
\* reported them, ScenarioDropped spans were dropped and there are two
\* messages: "buffer full" at the first drop, and one quiet window later a
\* summary that counts all ScenarioDropped drops.
C2_SummaryCountsAllDrops ==
    (Len(exported) = ScenarioExports /\ accum = 0) =>
        /\ Cardinality(Dropped) = ScenarioDropped
        /\ Len(logs) = 2
        /\ logs[1].by = "log" /\ logs[1].n = 1
        /\ logs[2].by = "timer" /\ logs[2].n = ScenarioDropped
        /\ logs[2].at >= logs[1].at + QuietWindow

\* (C2, amended) ... the first drop is reported by the "buffer full" message
\* alone; the summary counts the other ScenarioDropped - 1 drops, and until
\* the callback runs they are held in accum.
C2_OverflowScenario ==
    Len(exported) = ScenarioExports =>
        /\ Cardinality(Dropped) = ScenarioDropped
        /\ logCalls = ScenarioDropped
        /\ logs[1].by = "log" /\ logs[1].n = 1
        /\ IF accum > 0
           THEN Len(logs) = 1 /\ accum = ScenarioDropped - 1
           ELSE /\ Len(logs) = 2
                /\ logs[2].by = "timer" /\ logs[2].n = ScenarioDropped - 1
                /\ logs[2].at >= logs[1].at + QuietWindow

C2_Witness ==
    /\ Len(exported) = ScenarioExports
    /\ Len(logs) = 2
    /\ pause = FALSE

\* ----------------------------------------------- tagencoding.Values
sizeOfUint16 == 2       \* unsafe.Sizeof(uint16(0))
SizeOfInt == 8          \* unsafe.Sizeof(int(0)) where int has 64 bits

\* The values written: none, one byte, two bytes that read as a length of
\* their own, and a value whose length takes both bytes of the prefix.
LongValue == [i \in 1..LongLen |-> i % 256]
CodecValues == {<<>>, <<7>>, <<0, 4>>, LongValue}

\* What memory past the end of Buffer may hold.
StrayBytes == {0, 255}

\* The bytes of the int n as they lie in memory, lowest address first.
\* Byte k of n, byte 0 being the least significant.
RECURSIVE ByteOf(_, _)
ByteOf(n, k) == IF k = 0 THEN n % 256 ELSE ByteOf(n \div 256, k - 1)

IntBytes(n) ==
    [i \in 1..SizeOfInt |-> ByteOf(n, IF bigEndian THEN SizeOfInt - i ELSE i - 1)]

\* *(*[2]byte)(unsafe.Pointer(&length)): the int's first two bytes in memory.
FirstTwoBytes(n) == SubSeq(IntBytes(n), 1, sizeOfUint16)

\* *(*uint16)(unsafe.Pointer(&b0)): the uint16 that lies in the bytes b0, b1.
Uint16At(b0, b1) == IF bigEndian THEN b0 * 256 + b1 ELSE b0 + b1 * 256

\* copy(dst[at:], src)
copy(dst, at, src) ==
    [i \in 1..Len(dst) |-> IF i > at /\ i <= at + Len(src) THEN src[i - at] ELSE dst[i]]

\* growIfRequired that allocates the new buffer and copies nothing into it.
GrowWithoutCopy(buf, wi, expected) ==
    IF Len(buf) - wi < expected
    THEN [i \in 1..(2 * (Len(buf) + 1) + expected) |-> 0]
    ELSE buf

\* growIfRequired(expected) on the buffer buf with write index wi.
growIfRequired(buf, wi, expected) ==
    IF Len(buf) - wi < expected
    THEN copy([i \in 1..(2 * (Len(buf) + 1) + expected) |-> 0], 0, buf)
    ELSE buf

\* The buffer after WriteValue(v).
WriteBuffer(v) ==
    LET length == Len(v)
        grown == growIfRequired(Buffer, WriteIndex, sizeOfUint16 + length)
        bytes == FirstTwoBytes(length)
        prefixed == [grown EXCEPT ![WriteIndex + 1] = bytes[1], ![WriteIndex + 2] = bytes[2]]
    IN  IF length = 0 THEN prefixed ELSE copy(prefixed, WriteIndex + sizeOfUint16, v)

\* WriteValue(v).  Values are written before the first one is read.
WriteValue(v) ==
    /\ ~panicked
    /\ Len(written) < MaxWrites
    /\ results = <<>>
    /\ Buffer' = WriteBuffer(v)
    /\ WriteIndex' = WriteIndex + sizeOfUint16 + Len(v)
    /\ written' = Append(written, v)
    /\ UNCHANGED <<bigEndian, ReadIndex, results, panicked>>
    /\ UNCHANGED <<cfgVars, now, exporterVars, flushVars, loggerVars>>

\* ReadValue(), called at most as often as WriteValue was.  Taking the
\* address of Buffer[ReadIndex] and slicing Buffer up to endIdx panic when
\* they are out of range; the second byte of the uint16 may lie past the end
\* of Buffer.
ReadValue ==
    /\ ~panicked
    /\ Len(results) < Len(written)
    /\ IF ReadIndex >= Len(Buffer)
       THEN /\ panicked' = TRUE
            /\ UNCHANGED <<ReadIndex, results>>
       ELSE \E b1 \in (IF ReadIndex + 2 <= Len(Buffer) THEN {Buffer[ReadIndex + 2]}
                       ELSE StrayBytes) :
              LET length == Uint16At(Buffer[ReadIndex + 1], b1)
                  start == ReadIndex + sizeOfUint16
                  endIdx == start + length
              IN  IF length = 0
                  THEN /\ ReadIndex' = start
                       /\ results' = Append(results, <<>>)
                       /\ UNCHANGED panicked
                  ELSE IF endIdx > Len(Buffer)
                  THEN /\ ReadIndex' = start
                       /\ panicked' = TRUE
                       /\ UNCHANGED results
                  ELSE /\ ReadIndex' = endIdx
                       /\ results' = Append(results, SubSeq(Buffer, start + 1, endIdx))
                       /\ UNCHANGED panicked
    /\ UNCHANGED <<bigEndian, Buffer, WriteIndex, written>>
    /\ UNCHANGED <<cfgVars, now, exporterVars, flushVars, loggerVars>>

\* Bytes()
Bytes == SubSeq(Buffer, 1, WriteIndex)

NextCodec ==
    \/ \E v \in CodecValues : WriteValue(v)
    \/ ReadValue

\* The program is built for a platform of either byte order.
InitCodec ==
    /\ newExporter(0, 0)
    /\ Idle
    /\ newValues
    /\ bigEndian \in BOOLEAN

SpecCodec == InitCodec /\ [][NextCodec]_vars

\* ------------------------------------------------ claims on the codec
\* The encoding of the value v: the 2-byte length prefix, which is the
\* platform's uint16 of the length, and the payload.
LengthPrefix(n) == IF bigEndian THEN <<n \div 256, n % 256>> ELSE <<n % 256, n \div 256>>
Encoding(v) == LengthPrefix(Len(v)) \o v

RECURSIVE Concat(_)
Concat(ss) == IF ss = <<>> THEN <<>> ELSE Head(ss) \o Concat(Tail(ss))

RoundTrip ==
    /\ ~panicked
    /\ \A i \in 1..Len(results) : results[i] = written[i]
    /\ Len(results) = Len(written) => ReadIndex = WriteIndex

\* (C12) Round trip: the i-th ReadValue returns the value of the i-th
\* WriteValue (the empty value for a value of length 0), and when as many
\* values are read as were written ReadIndex equals WriteIndex.
C12_RoundTrip == RoundTrip

\* (C12 on a little-endian build)
C12_RoundTripLittleEndian == ~bigEndian => RoundTrip

BytesIsConcatenation ==
    Bytes = Concat([i \in 1..Len(written) |-> Encoding(written[i])])

\* No step changes a byte below WriteIndex.
WrittenBytesKept == \A i \in 1..WriteIndex : Buffer'[i] = Buffer[i]

\* (C13) After any number of WriteValue calls, Bytes() is the concatenation
\* of the encodings of the values written, in order, and no write and no
\* growth of the buffer changes a byte written earlier.
C13_GrowableBuffer == []BytesIsConcatenation /\ [][WrittenBytesKept]_vars

\* (C13 on a little-endian build)
C13_GrowableBufferLittleEndian ==
    [](~bigEndian => BytesIsConcatenation) /\ [][WrittenBytesKept]_vars

IndexInvariant == WriteIndex <= Len(Buffer) /\ ReadIndex <= WriteIndex

IndexFrame ==
    /\ written' # written => ReadIndex' = ReadIndex
    /\ (results' # results \/ ReadIndex' # ReadIndex \/ panicked' # panicked)
           => WriteIndex' = WriteIndex /\ Buffer' = Buffer

\* (C17) WriteIndex <= len(Buffer) and ReadIndex <= WriteIndex in every
\* state; WriteValue leaves ReadIndex alone, ReadValue leaves WriteIndex and
\* the buffer alone.
C17_ValuesInvariant == []IndexInvariant /\ [][IndexFrame]_vars

\* (C17 on a little-endian build)
C17_ValuesInvariantLittleEndian == [](~bigEndian => IndexInvariant) /\ [][IndexFrame]_vars

\* All the values written were read back, the buffer having grown on the way.
CodecWitness ==
    /\ Len(written) = MaxWrites
    /\ Len(results) = MaxWrites
    /\ LongValue \in Range(results)
    /\ <<>> \in Range(results)

====
